---- MODULE Spec2Model ----
(***************************************************************************)
(* Model of Dilay's trim-mesh border (tool/trim-mesh/border.cpp):          *)
(* ToolTrimMeshBorderSegment and ToolTrimMeshBorder, in the variant with   *)
(* offset / reverse / onlyObtuseAngles ("full") and in the variant with a  *)
(* single border plane ("simple").                                         *)
(*                                                                         *)
(* Arithmetic.  World coordinates are integers.  A direction or a normal   *)
(* is an integer vector; glm::normalize only rescales by a positive        *)
(* factor, which no sign test of the code can see, so planes and rays keep *)
(* the integer vector, and where the code uses the LENGTH of a unit vector *)
(* (offset * baseNormal, the sum of the plane normals) the unit vector is  *)
(* computed in fixed point with Unit steps per 1.0 (Normalize).  The       *)
(* epsilon of onRay / onPlane / intersects is below the grid resolution,   *)
(* so these tests are exact.  Points that the code computes with a         *)
(* division (midpoints, ray/plane hit points) are kept as homogeneous      *)
(* points [v, w] standing for v / w, w > 0.                                *)
(***************************************************************************)
EXTENDS Integers, Sequences, FiniteSets, TLC

VARIABLES variant, points, offset, reverse, borderPlane, segments, failed, calls, result

vars == <<variant, points, offset, reverse, borderPlane, segments, failed, calls, result>>

(***************************************************************************)
(* Bounds                                                                  *)
(***************************************************************************)
MaxPoints == 4
MaxIndex == 1
MaxCalls == 4
Unit == 16

\* The offsets a border is displaced by.
Offsets == {0, 1}
\* The screen points a polyline is drawn through.
ScreenPts == {<<-1, 0>>, <<0, 1>>, <<1, 0>>, <<0, -1>>}
\* The world points the queries are asked about.
WorldPts == {<<x, y, z>> : x \in -2..2, y \in -2..2, z \in 0..2}

(***************************************************************************)
(* glm::vec3                                                               *)
(***************************************************************************)
Zero3 == <<0, 0, 0>>
Add(a, b) == <<a[1] + b[1], a[2] + b[2], a[3] + b[3]>>
Sub(a, b) == <<a[1] - b[1], a[2] - b[2], a[3] - b[3]>>
Scale(k, a) == <<k * a[1], k * a[2], k * a[3]>>
Dot(a, b) == a[1] * b[1] + a[2] * b[2] + a[3] * b[3]
Cross(a, b) == <<a[2] * b[3] - a[3] * b[2], a[3] * b[1] - a[1] * b[3], a[1] * b[2] - a[2] * b[1]>>
Abs(k) == IF k < 0 THEN -k ELSE k
Sgn(k) == IF k < 0 THEN -1 ELSE IF k > 0 THEN 1 ELSE 0

\* One component of a unit vector in fixed point: the largest c in 0..Unit
\* with (c / Unit)^2 <= k^2 / len2, signed as k (truncation towards zero).
UnitComponent(k, len2) ==
  LET kk == k * k * Unit * Unit
  IN  Sgn(k) * (CHOOSE c \in 0..Unit :
                  c * c * len2 <= kk /\ (c + 1) * (c + 1) * len2 > kk)

\* glm::normalize in fixed point: a vector of length Unit (up to truncation).
Normalize(a) ==
  IF a = Zero3 THEN Zero3
  ELSE LET len2 == Dot(a, a)
       IN  <<UnitComponent(a[1], len2), UnitComponent(a[2], len2), UnitComponent(a[3], len2)>>

\* offset * unit vector, back on the integer grid (truncation towards zero).
Displace(off, unit) ==
  <<Sgn(unit[1]) * ((off * Abs(unit[1])) \div Unit),
    Sgn(unit[2]) * ((off * Abs(unit[2])) \div Unit),
    Sgn(unit[3]) * ((off * Abs(unit[3])) \div Unit)>>

\* A homogeneous point [v, w] stands for v / w.
Pt(a) == [v |-> a, w |-> 1]
\* w * (p - o), for a homogeneous p and an integer o: parallel to p - o.
Rel(p, o) == Sub(p.v, Scale(p.w, o))

(***************************************************************************)
(* Collaborators: Camera, PrimRay, PrimPlane, IntersectionUtil, Util       *)
(***************************************************************************)
Camera_position == Zero3

\* Camera::ray: the ray from the eye through a screen point (perspective).
Camera_ray(sp) == [origin |-> Camera_position, direction |-> <<sp[1], sp[2], 1>>]

PrimRay(o, d) == [origin |-> o, direction |-> d]
PrimPlane(p, n) == [point |-> p, normal |-> n]

\* PrimRay::onRay: p lies on the half line from origin along direction.
onRay(ray, p) ==
  /\ Cross(Rel(p, ray.origin), ray.direction) = Zero3
  /\ Dot(Rel(p, ray.origin), ray.direction) >= 0

\* PrimPlane::onPlane
onPlane(plane, p) == Dot(plane.normal, Rel(p, plane.point)) = 0

\* IntersectionUtil::intersects (ray, plane, t): no hit when the ray is
\* parallel to the plane or the hit lies behind the ray's origin.  The ray
\* is [origin: homogeneous point, direction].
Intersection_d(ray, plane) == Dot(ray.direction, plane.normal)
\* w * (plane.point - origin) . normal; t = Intersection_num / (w * d).
Intersection_num(ray, plane) == -Dot(plane.normal, Rel(ray.origin, plane.point))
Intersection_intersects(ray, plane) ==
  /\ Intersection_d(ray, plane) # 0
  /\ Sgn(Intersection_num(ray, plane)) * Sgn(Intersection_d(ray, plane)) >= 0

\* PrimRay::pointAt (t) for the t of Intersection_intersects.
pointAt(ray, plane) ==
  LET d == Intersection_d(ray, plane)
      num == Intersection_num(ray, plane)
  IN  [v |-> Scale(Sgn(d), Add(Scale(d, ray.origin.v), Scale(num, ray.direction))),
       w |-> ray.origin.w * Abs(d)]

\* Util::midpoint / Util::between
midpoint(p, q) == [v |-> Add(Scale(q.w, p.v), Scale(p.w, q.v)), w |-> 2 * p.w * q.w]

(***************************************************************************)
(* ToolTrimMeshBorderSegment                                               *)
(***************************************************************************)
\* Maybe <PrimRay>: <<>> or <<ray>>.
Nothing == <<>>
Just(x) == <<x>>
isSet(m) == m # <<>>

Segment_RayRay(e1, e2) ==
  [polylines |-> <<>>,
   plane |-> PrimPlane(e1.origin, Cross(e2.direction, e1.direction)),
   edge1 |-> Just(e1), edge2 |-> Just(e2)]

Segment_PlaneRay(p, e) ==
  [polylines |-> <<>>, plane |-> p, edge1 |-> Nothing, edge2 |-> Just(e)]

Segment_RayPlane(e, p) ==
  [polylines |-> <<>>, plane |-> p, edge1 |-> Just(e), edge2 |-> Nothing]

Segment_Plane(p) ==
  [polylines |-> <<>>, plane |-> p, edge1 |-> Nothing, edge2 |-> Nothing]

isValidProjection(s, p) ==
  LET c1 == IF isSet(s.edge1)
            THEN 0 < Dot(s.plane.normal,
                         Cross(Rel(p, s.edge1[1].origin), s.edge1[1].direction))
            ELSE TRUE
      c2 == IF isSet(s.edge2)
            THEN 0 < Dot(s.plane.normal,
                         Cross(s.edge2[1].direction, Rel(p, s.edge2[1].origin)))
            ELSE TRUE
  IN  c1 /\ c2

\* onBorder (p, onEdge): [ret, onEdge].
Segment_onBorderEdge(s, p) ==
  IF isSet(s.edge1) /\ onRay(s.edge1[1], p) THEN [ret |-> TRUE, onEdge |-> TRUE]
  ELSE IF isSet(s.edge2) /\ onRay(s.edge2[1], p) THEN [ret |-> TRUE, onEdge |-> TRUE]
  ELSE IF onPlane(s.plane, p) THEN [ret |-> isValidProjection(s, p), onEdge |-> FALSE]
  ELSE [ret |-> FALSE, onEdge |-> FALSE]

Segment_onBorder(s, p) == Segment_onBorderEdge(s, p).ret

Segment_intersects(s, ray) ==
  IF Intersection_intersects(ray, s.plane)
  THEN isValidProjection(s, pointAt(ray, s.plane))
  ELSE FALSE

(***************************************************************************)
(* ToolTrimMeshBorder: construction                                        *)
(***************************************************************************)
\* points[i] of the code (0-based).
At(pts, i) == pts[i + 1]

\* baseNormal of the constructor (a unit vector, in fixed point).
baseNormal(pts, rev) ==
  LET n == Len(pts)
      rFirst == Camera_ray(At(pts, IF rev THEN n - 1 ELSE 0))
      rLast == Camera_ray(At(pts, IF rev THEN 0 ELSE n - 1))
  IN  Normalize(Cross(rLast.direction, rFirst.direction))

makePlane(pts, off, base, i1, i2) ==
  LET r1 == Camera_ray(At(pts, i1))
      r2 == Camera_ray(At(pts, i2))
      normal == Cross(r2.direction, r1.direction)
      point == Add(Camera_position, Displace(off, base))
  IN  PrimPlane(point, normal)

makeRay(pts, off, base, i) ==
  LET r == Camera_ray(At(pts, i))
  IN  PrimRay(Add(r.origin, Displace(off, base)), r.direction)

\* ForwardChain with the loop running one pass too far (i < n - 1).
ForwardChain_loopBound(pts, off, base) ==
  LET n == Len(pts)
  IN  <<Segment_PlaneRay(makePlane(pts, off, base, 0, 1), makeRay(pts, off, base, 1))>>
      \o [i \in 1..(n - 2) |->
            Segment_RayRay(makeRay(pts, off, base, i), makeRay(pts, off, base, i + 1))]
      \o <<Segment_RayPlane(makeRay(pts, off, base, n - 2),
                            makePlane(pts, off, base, n - 2, n - 1))>>

\* n > 2, reverse == false
ForwardChain(pts, off, base) ==
  LET n == Len(pts)
  IN  <<Segment_PlaneRay(makePlane(pts, off, base, 0, 1), makeRay(pts, off, base, 1))>>
      \o [i \in 1..(n - 3) |->
            Segment_RayRay(makeRay(pts, off, base, i), makeRay(pts, off, base, i + 1))]
      \o <<Segment_RayPlane(makeRay(pts, off, base, n - 2),
                            makePlane(pts, off, base, n - 2, n - 1))>>

\* ReverseChain whose first segment takes its ray from the wrong screen point.
ReverseChain_firstRay(pts, off, base) ==
  LET n == Len(pts)
  IN  <<Segment_PlaneRay(makePlane(pts, off, base, n - 1, n - 2),
                         makeRay(pts, off, base, n - 1))>>
      \o [k \in 1..(n - 3) |->
            Segment_RayRay(makeRay(pts, off, base, n - 1 - k),
                           makeRay(pts, off, base, n - 2 - k))]
      \o <<Segment_RayPlane(makeRay(pts, off, base, 1), makePlane(pts, off, base, 1, 0))>>

\* n > 2, reverse == true: the loop runs i = n - 2 down to 2; its k-th pass
\* (k = 1..n-3) has i = n - 1 - k.
ReverseChain(pts, off, base) ==
  LET n == Len(pts)
  IN  <<Segment_PlaneRay(makePlane(pts, off, base, n - 1, n - 2),
                         makeRay(pts, off, base, n - 2))>>
      \o [k \in 1..(n - 3) |->
            Segment_RayRay(makeRay(pts, off, base, n - 1 - k),
                           makeRay(pts, off, base, n - 2 - k))]
      \o <<Segment_RayPlane(makeRay(pts, off, base, 1), makePlane(pts, off, base, 1, 0))>>

\* Impl with the reverse flag ignored when the segments are built.
Impl_reverseIgnored(pts, off, rev) ==
  LET n == Len(pts)
      base == baseNormal(pts, rev)
  IN  IF n = 2
      THEN <<Segment_Plane(makePlane(pts, off, base, 0, 1))>>
      ELSE ForwardChain(pts, off, base)

\* ToolTrimMeshBorder::Impl::Impl (mesh, cam, points, offset, reverse): segments
Impl(pts, off, rev) ==
  LET n == Len(pts)
      base == baseNormal(pts, rev)
  IN  IF n = 2
      THEN IF rev = FALSE
           THEN <<Segment_Plane(makePlane(pts, off, base, 0, 1))>>
           ELSE <<Segment_Plane(makePlane(pts, off, base, 1, 0))>>
      ELSE IF rev = FALSE
           THEN ForwardChain(pts, off, base)
           ELSE ReverseChain(pts, off, base)

\* The simple variant: borderPlane of the constructor's initialiser list.
Simple_borderPlane(pts) ==
  PrimPlane(Camera_position,
            Cross(Camera_ray(At(pts, 1)).direction, Camera_ray(At(pts, 0)).direction))

Simple_addFirstSegment(pts) ==
  LET r1 == Camera_ray(At(pts, 0))
      r2 == Camera_ray(At(pts, 1))
      p == PrimPlane(Camera_position, Cross(r2.direction, r1.direction))
  IN  Segment_PlaneRay(p, r2)

Simple_addMiddleSegment(pts, it) ==
  LET r1 == Camera_ray(At(pts, it))
      r2 == Camera_ray(At(pts, it + 1))
  IN  Segment_RayRay(r1, r2)

Simple_addLastSegment(pts) ==
  LET n == Len(pts)
      r1 == Camera_ray(At(pts, n - 2))
      r2 == Camera_ray(At(pts, n - 1))
      p == PrimPlane(Camera_position, Cross(r2.direction, r1.direction))
  IN  Segment_RayPlane(r1, p)

\* ToolTrimMeshBorder::Impl::Impl (cam, points): segments
Simple_Impl(pts) ==
  LET n == Len(pts)
  IN  IF n = 2
      THEN <<Segment_Plane(Simple_borderPlane(pts))>>
      ELSE <<Simple_addFirstSegment(pts)>>
           \o [it \in 1..(n - 3) |-> Simple_addMiddleSegment(pts, it)]
           \o <<Simple_addLastSegment(pts)>>

(***************************************************************************)
(* ToolTrimMeshBorder: queries.  A border b is [variant, segments,         *)
(* borderPlane].                                                           *)
(***************************************************************************)
numSegments(b) == Len(b.segments)

Border_onBorder(b, p) == \E i \in 1..numSegments(b) : Segment_onBorder(b.segments[i], p)

RECURSIVE SumUnitNormals(_, _)
SumUnitNormals(segs, k) ==
  IF k = 0 THEN Zero3
  ELSE Add(SumUnitNormals(segs, k - 1), Normalize(segs[k].plane.normal))

\* castDirection without the negation (direction += normal).
castDirection_notNegated(b) ==
  IF b.variant = "full"
  THEN SumUnitNormals(b.segments, numSegments(b))
  ELSE Normalize(b.borderPlane.normal)

\* The direction of the ray trimVertex casts.
castDirection(b) ==
  IF b.variant = "full"
  THEN Sub(Zero3, SumUnitNormals(b.segments, numSegments(b)))
  ELSE Sub(Zero3, Normalize(b.borderPlane.normal))

\* The n of trimVertex: the segments the ray from p intersects.
countIntersections(b, p) ==
  LET ray == [origin |-> p, direction |-> castDirection(b)]
  IN  Cardinality({i \in 1..numSegments(b) : Segment_intersects(b.segments[i], ray)})

\* trimVertex without the onBorder test.
trimVertex_noBorderTest(b, p) == countIntersections(b, p) % 2 = 1

trimVertex(b, p) ==
  IF Border_onBorder(b, p) THEN FALSE
  ELSE countIntersections(b, p) % 2 = 1

\* trimFace sampling only the midpoint of p1 and p2.
trimFace_oneMidpoint(b, p1, p2, p3) ==
  IF trimVertex(b, p1) \/ trimVertex(b, p2) \/ trimVertex(b, p3) THEN TRUE
  ELSE IF Border_onBorder(b, p1) /\ Border_onBorder(b, p2) /\ Border_onBorder(b, p3)
  THEN trimVertex(b, midpoint(p1, p2))
  ELSE FALSE

trimFace(b, p1, p2, p3) ==
  IF trimVertex(b, p1) \/ trimVertex(b, p2) \/ trimVertex(b, p3) THEN TRUE
  ELSE IF Border_onBorder(b, p1) /\ Border_onBorder(b, p2) /\ Border_onBorder(b, p3)
  THEN LET p4 == midpoint(p1, p2)
           p5 == midpoint(p1, p3)
           p6 == midpoint(p2, p3)
       IN  trimVertex(b, p4) \/ trimVertex(b, p5) \/ trimVertex(b, p6)
  ELSE FALSE

onlyObtuseAngles(b) ==
  IF numSegments(b) > 2
  THEN \A i \in 0..(numSegments(b) - 2) :
         ~(Dot(b.segments[i + 1].plane.normal, b.segments[i + 2].plane.normal) < 0)
  ELSE TRUE

\* The test of getSegment's loop body requiring both points off the edges
\* (&& for ||).
getSegment_test_bothOffEdge(s, v1, v2) ==
  LET r1 == Segment_onBorderEdge(s, v1)
      onEdge1 == r1.onEdge
      r2 == IF r1.ret THEN Segment_onBorderEdge(s, v2) ELSE [ret |-> FALSE, onEdge |-> FALSE]
      onEdge2 == r2.onEdge
  IN  r1.ret /\ r2.ret /\ (onEdge1 = FALSE /\ onEdge2 = FALSE)

\* The test of getSegment's loop body on segment s: onEdge2 stays false when
\* onBorder (v1) is false (&& does not evaluate its right side).
getSegment_test(s, v1, v2) ==
  LET r1 == Segment_onBorderEdge(s, v1)
      onEdge1 == r1.onEdge
      r2 == IF r1.ret THEN Segment_onBorderEdge(s, v2) ELSE [ret |-> FALSE, onEdge |-> FALSE]
      onEdge2 == r2.onEdge
  IN  r1.ret /\ r2.ret /\ (onEdge1 = FALSE \/ onEdge2 = FALSE)

\* The loop of getSegment from segment i (0-based) on: the index of the
\* segment the returned reference refers to, or impossible (DILAY_IMPOSSIBLE)
\* with the i the loop ended at.
RECURSIVE getSegmentLoop(_, _, _, _)
getSegmentLoop(b, i, v1, v2) ==
  IF ~(i < numSegments(b)) THEN [impossible |-> TRUE, index |-> i]
  ELSE IF getSegment_test(b.segments[i + 1], v1, v2)
       THEN [impossible |-> FALSE, index |-> i]
       ELSE getSegmentLoop(b, i + 1, v1, v2)

getSegment(b, v1, v2) == getSegmentLoop(b, 0, v1, v2)

(***************************************************************************)
(* ToolTrimMeshBorderSegment / ToolTrimMeshBorder: polylines               *)
(* A mutator returns [segs or seg, failed]: failed when an assert of the   *)
(* code fails (or std::vector::at throws), with the state as the code left *)
(* it at that point.                                                       *)
(***************************************************************************)
InvalidIndex == -1

\* addVertex storing into the first polyline (front () for back ()).
Segment_addVertex_front(s, index, p) ==
  IF ~Segment_onBorder(s, p) THEN [seg |-> s, failed |-> TRUE]
  ELSE IF s.polylines = <<>> THEN [seg |-> s, failed |-> TRUE]
  ELSE [seg |-> [s EXCEPT !.polylines[1] = Append(@, index)], failed |-> FALSE]

Segment_addVertex(s, index, p) ==
  IF ~Segment_onBorder(s, p) THEN [seg |-> s, failed |-> TRUE]
  ELSE IF s.polylines = <<>> THEN [seg |-> s, failed |-> TRUE]
  ELSE LET last == Len(s.polylines)
       IN  [seg |-> [s EXCEPT !.polylines[last] = Append(@, index)], failed |-> FALSE]

Segment_addPolyline(s) == [s EXCEPT !.polylines = Append(@, <<>>)]

\* The loop of Border::addVertex over segments k..n; acc = [segs, failed, wasAdded].
RECURSIVE addVertexLoop(_, _, _, _)
addVertexLoop(acc, k, index, p) ==
  IF k > Len(acc.segs) \/ acc.failed THEN acc
  ELSE IF Segment_onBorder(acc.segs[k], p)
       THEN LET r == Segment_addVertex(acc.segs[k], index, p)
            IN  addVertexLoop([segs |-> [acc.segs EXCEPT ![k] = r.seg],
                               failed |-> r.failed, wasAdded |-> TRUE],
                              k + 1, index, p)
       ELSE addVertexLoop(acc, k + 1, index, p)

\* The loop of Border::addVertex leaving at the first segment that took the vertex.
RECURSIVE addVertexLoop_break(_, _, _, _)
addVertexLoop_break(acc, k, index, p) ==
  IF k > Len(acc.segs) \/ acc.failed \/ acc.wasAdded THEN acc
  ELSE IF Segment_onBorder(acc.segs[k], p)
       THEN LET r == Segment_addVertex(acc.segs[k], index, p)
            IN  addVertexLoop_break([segs |-> [acc.segs EXCEPT ![k] = r.seg],
                                     failed |-> r.failed, wasAdded |-> TRUE],
                                    k + 1, index, p)
       ELSE addVertexLoop_break(acc, k + 1, index, p)

Border_addVertex_break(segs, index, p) ==
  LET r == addVertexLoop_break([segs |-> segs, failed |-> FALSE, wasAdded |-> FALSE],
                               1, index, p)
  IN  [segs |-> r.segs, failed |-> r.failed \/ ~r.wasAdded]

Border_addVertex(segs, index, p) ==
  LET r == addVertexLoop([segs |-> segs, failed |-> FALSE, wasAdded |-> FALSE], 1, index, p)
  IN  [segs |-> r.segs, failed |-> r.failed \/ ~r.wasAdded]

Border_addPolyline(segs) == [k \in 1..Len(segs) |-> Segment_addPolyline(segs[k])]

\* newIndices.at (i) != Util::invalidIndex (), with at's range check.
validNewIndex(newIndices, i) ==
  i + 1 \in 1..Len(newIndices) /\ newIndices[i + 1] # InvalidIndex

\* The inner loop of Segment::setNewIndices over one polyline, from entry j on.
RECURSIVE setNewIndicesPolyline(_, _, _)
setNewIndicesPolyline(acc, j, newIndices) ==
  IF j > Len(acc.val) \/ acc.failed THEN acc
  ELSE IF validNewIndex(newIndices, acc.val[j])
       THEN setNewIndicesPolyline([val |-> [acc.val EXCEPT ![j] = newIndices[acc.val[j] + 1]],
                                   failed |-> FALSE], j + 1, newIndices)
       ELSE [val |-> acc.val, failed |-> TRUE]

\* The outer loop of Segment::setNewIndices, from polyline k on.
RECURSIVE setNewIndicesPolylines(_, _, _)
setNewIndicesPolylines(acc, k, newIndices) ==
  IF k > Len(acc.val) \/ acc.failed THEN acc
  ELSE LET r == setNewIndicesPolyline([val |-> acc.val[k], failed |-> FALSE], 1, newIndices)
       IN  setNewIndicesPolylines([val |-> [acc.val EXCEPT ![k] = r.val], failed |-> r.failed],
                                  k + 1, newIndices)

\* setNewIndices iterating over copies (unsigned int i for unsigned int& i):
\* the asserts are checked, nothing is stored.
Segment_setNewIndices_byValue(s, newIndices) ==
  [seg |-> s,
   failed |-> setNewIndicesPolylines([val |-> s.polylines, failed |-> FALSE], 1, newIndices).failed]

Segment_setNewIndices(s, newIndices) ==
  LET r == setNewIndicesPolylines([val |-> s.polylines, failed |-> FALSE], 1, newIndices)
  IN  [seg |-> [s EXCEPT !.polylines = r.val], failed |-> r.failed]

\* The loop of Border::setNewIndices over segments k..n.
RECURSIVE setNewIndicesLoop(_, _, _)
setNewIndicesLoop(acc, k, newIndices) ==
  IF k > Len(acc.segs) \/ acc.failed THEN acc
  ELSE LET r == Segment_setNewIndices(acc.segs[k], newIndices)
       IN  setNewIndicesLoop([segs |-> [acc.segs EXCEPT ![k] = r.seg], failed |-> r.failed],
                             k + 1, newIndices)

Border_setNewIndices(segs, newIndices) ==
  setNewIndicesLoop([segs |-> segs, failed |-> FALSE], 1, newIndices)

\* std::remove_if (empty) + erase
RECURSIVE removeEmpty(_)
removeEmpty(pls) ==
  IF pls = <<>> THEN <<>>
  ELSE IF Head(pls) = <<>> THEN removeEmpty(Tail(pls))
       ELSE <<Head(pls)>> \o removeEmpty(Tail(pls))

\* deleteEmptyPolylines erasing only the first empty polyline (find_if for
\* remove_if).
Segment_deleteEmptyPolylines_firstOnly(s) ==
  IF \E q \in 1..Len(s.polylines) : s.polylines[q] = <<>>
  THEN LET first == CHOOSE q \in 1..Len(s.polylines) :
                      /\ s.polylines[q] = <<>>
                      /\ \A h \in 1..(q - 1) : s.polylines[h] # <<>>
       IN  [s EXCEPT !.polylines = SubSeq(@, 1, first - 1) \o SubSeq(@, first + 1, Len(@))]
  ELSE s

Segment_deleteEmptyPolylines(s) == [s EXCEPT !.polylines = removeEmpty(@)]

Border_deleteEmptyPolylines(segs) ==
  [k \in 1..Len(segs) |-> Segment_deleteEmptyPolylines(segs[k])]

Segment_hasVertices(s) == \E k \in 1..Len(s.polylines) : s.polylines[k] # <<>>

Border_hasVertices(segs) == \E k \in 1..Len(segs) : Segment_hasVertices(segs[k])

(***************************************************************************)
(* State                                                                   *)
(***************************************************************************)
Variants == {"full", "simple"}
NoPlane == PrimPlane(Zero3, Zero3)
NoResult == [op |-> "none", args |-> <<>>, ret |-> FALSE]

\* The screen polylines a border is built from: consecutive points differ
\* and the ends differ (otherwise a cross product of the constructor is 0
\* and its normalisation is not a number).
PointLists ==
  {pts \in UNION {[1..n -> ScreenPts] : n \in 2..MaxPoints} :
     /\ \A i \in 1..(Len(pts) - 1) : pts[i] # pts[i + 1]
     /\ pts[1] # pts[Len(pts)]}

Border == [variant |-> variant, segments |-> segments, borderPlane |-> borderPlane]

\* The state after construction, for every border of the bounds.
Init ==
  /\ variant \in Variants
  /\ points \in PointLists
  /\ offset \in IF variant = "full" THEN Offsets ELSE {0}
  /\ reverse \in IF variant = "full" THEN BOOLEAN ELSE {FALSE}
  /\ segments = IF variant = "full" THEN Impl(points, offset, reverse) ELSE Simple_Impl(points)
  /\ borderPlane = IF variant = "full" THEN NoPlane ELSE Simple_borderPlane(points)
  /\ failed = FALSE
  /\ calls = 0
  /\ result = NoResult

Constructed == <<variant, points, offset, reverse, borderPlane>>

(***************************************************************************)
(* Queries (const member functions): one is asked of the constructed       *)
(* border and its answer kept in result.                                   *)
(***************************************************************************)
Asked(r) ==
  /\ ~failed
  /\ result.op = "none"
  /\ result' = r
  /\ UNCHANGED <<Constructed, segments, failed, calls>>

OnBorder(p) ==
  Asked([op |-> "onBorder", args |-> <<p>>, ret |-> Border_onBorder(Border, Pt(p))])

TrimVertex(p) ==
  Asked([op |-> "trimVertex", args |-> <<p>>, ret |-> trimVertex(Border, Pt(p))])

TrimFace(p1, p2, p3) ==
  Asked([op |-> "trimFace", args |-> <<p1, p2, p3>>,
         ret |-> trimFace(Border, Pt(p1), Pt(p2), Pt(p3))])

OnlyObtuseAngles ==
  /\ variant = "full"
  /\ Asked([op |-> "onlyObtuseAngles", args |-> <<>>, ret |-> onlyObtuseAngles(Border)])

\* numSegments ()
NumSegments ==
  Asked([op |-> "numSegments", args |-> <<>>, ret |-> numSegments(Border)])

\* segment (i): fatal when i is out of range.
Segment(i) ==
  IF i < numSegments(Border)
  THEN Asked([op |-> "segment", args |-> <<i>>, ret |-> segments[i + 1]])
  ELSE /\ ~failed
       /\ result.op = "none"
       /\ failed' = TRUE
       /\ UNCHANGED <<Constructed, segments, calls, result>>

\* getSegment (v1, v2): the segment returned, by its index; fatal when the
\* loop ends without a segment.
GetSegment(v1, v2) ==
  LET r == getSegment(Border, Pt(v1), Pt(v2))
  IN  /\ ~failed
      /\ result.op = "none"
      /\ result' = [op |-> "getSegment", args |-> <<v1, v2>>, ret |-> r.index]
      /\ failed' = r.impossible
      /\ UNCHANGED <<Constructed, segments, calls>>

NextChain ==
  \/ NumSegments
  \/ \E i \in 0..MaxPoints : Segment(i)
  \/ OnlyObtuseAngles

\* The segment chain of every border, and what the chain's accessors answer.
SpecChain == Init /\ [][NextChain]_vars

NextQuery ==
  \/ \E p \in WorldPts : OnBorder(p)
  \/ \E p \in WorldPts : TrimVertex(p)

\* A point query asked of every border.
SpecQuery == Init /\ [][NextQuery]_vars

\* The world points faces are asked about.
FacePts == {<<-1, 0, 1>>, <<1, 0, 1>>, <<0, 1, 1>>, <<0, -1, 1>>}

NextFace == \E p1 \in FacePts, p2 \in FacePts, p3 \in FacePts : TrimFace(p1, p2, p3)

\* The borders faces are asked about: those that are not displaced.
InitFace ==
  /\ Init
  /\ offset = 0

\* A face query asked of every border that is not displaced.
SpecFace == InitFace /\ [][NextFace]_vars

\* The world points getSegment is asked about: on the rays through the
\* screen points, between them, on the ray through the middle of the screen,
\* and beside the eye.
SegmentPts ==
  {<<-1, 0, 1>>, <<0, 1, 1>>, <<-1, 1, 2>>, <<1, 1, 2>>, <<0, 0, 1>>, <<0, 0, 2>>,
   <<-1, -1, 0>>, <<-2, -2, 0>>}

NextSegment == \E v1 \in SegmentPts, v2 \in SegmentPts : GetSegment(v1, v2)

\* The segment of a pair of points, asked of every border.
SpecSegment == Init /\ [][NextSegment]_vars

(***************************************************************************)
(* Mutators: the remeshing code's calls on one border, at most MaxCalls.   *)
(* A failed assert ends the program.                                       *)
(***************************************************************************)
Called(name, segs, f) ==
  /\ ~failed
  /\ calls < MaxCalls
  /\ calls' = calls + 1
  /\ result' = [op |-> name, args |-> <<>>, ret |-> FALSE]
  /\ segments' = segs
  /\ failed' = f
  /\ UNCHANGED Constructed

AddPolyline == Called("addPolyline", Border_addPolyline(segments), FALSE)

AddVertex(index, p) ==
  LET r == Border_addVertex(segments, index, Pt(p))
  IN  Called("addVertex", r.segs, r.failed)

\* addVertex called on one segment.
SegmentAddVertex(i, index, p) ==
  LET r == Segment_addVertex(segments[i], index, Pt(p))
  IN  Called("segmentAddVertex", [segments EXCEPT ![i] = r.seg], r.failed)

SetNewIndices(newIndices) ==
  LET r == Border_setNewIndices(segments, newIndices)
  IN  Called("setNewIndices", r.segs, r.failed)

DeleteEmptyPolylines ==
  Called("deleteEmptyPolylines", Border_deleteEmptyPolylines(segments), FALSE)

\* The vertex indices of the mesh, and the tables setNewIndices is given.
Indices == 0..MaxIndex
IdentityIndices == [k \in 1..(MaxIndex + 1) |-> k - 1]
\* The identity, the renumbering in reverse order, the identity with one
\* vertex gone (invalid), and a table one entry short.
NewIndices ==
  {IdentityIndices, [k \in 1..(MaxIndex + 1) |-> MaxIndex + 1 - k], SubSeq(IdentityIndices, 1, MaxIndex)}
    \cup {[IdentityIndices EXCEPT ![k] = InvalidIndex] : k \in 1..(MaxIndex + 1)}

\* The world points vertices are added at.
PolyPts == {<<-1, 0, 1>>, <<0, 1, 1>>, <<1, 0, 1>>, <<0, 0, 1>>}

\* The screen polyline the borders of SpecPoly are drawn along: each border is
\* built from its first 2, 3 or 4 points.
PolyLine == <<<<-1, 0>>, <<0, 1>>, <<1, 0>>, <<0, -1>>>>

InitPoly ==
  /\ Init
  /\ variant = "full"
  /\ offset = 0
  /\ reverse = FALSE
  /\ \E n \in 2..Len(PolyLine) : points = SubSeq(PolyLine, 1, n)

NextPoly ==
  \/ AddPolyline
  \/ \E index \in Indices, p \in PolyPts : AddVertex(index, p)
  \/ \E i \in 1..Len(segments), index \in Indices, p \in PolyPts : SegmentAddVertex(i, index, p)
  \/ \E newIndices \in NewIndices : SetNewIndices(newIndices)
  \/ DeleteEmptyPolylines

SpecPoly == InitPoly /\ [][NextPoly]_vars

(***************************************************************************)
(* Drawing and cleaning up: polylines are opened, vertices are stored at   *)
(* two points of the border, and empty polylines are deleted, at most      *)
(* MaxEdits calls.                                                         *)
(***************************************************************************)
MaxEdits == 6

\* The world points the vertices are stored at: on the rays through the first
\* and through the second point of PolyLine.
EditPts == {<<-1, 0, 1>>, <<0, 1, 1>>}

Edited(name, segs, f) ==
  /\ ~failed
  /\ calls < MaxEdits
  /\ calls' = calls + 1
  /\ result' = [op |-> name, args |-> <<>>, ret |-> FALSE]
  /\ segments' = segs
  /\ failed' = f
  /\ UNCHANGED Constructed

EditAddPolyline == Edited("addPolyline", Border_addPolyline(segments), FALSE)

EditAddVertex(index, p) ==
  LET r == Border_addVertex(segments, index, Pt(p))
  IN  Edited("addVertex", r.segs, r.failed)

EditDeleteEmptyPolylines ==
  Edited("deleteEmptyPolylines", Border_deleteEmptyPolylines(segments), FALSE)

NextEdit ==
  \/ EditAddPolyline
  \/ \E index \in Indices, p \in EditPts : EditAddVertex(index, p)
  \/ EditDeleteEmptyPolylines

SpecEdit == InitPoly /\ [][NextEdit]_vars

(***************************************************************************)
(* Properties of the queries                                               *)
(***************************************************************************)
AskedPoint == Pt(result.args[1])

\* C1: a point on the border is never trimmed: whenever some segment reports
\* onBorder(p), trimVertex(p) has returned false, whatever the parity of the
\* segments the cast ray would intersect.
C1_BorderPointNotTrimmed ==
  (result.op = "trimVertex" /\ \E i \in 1..Len(segments) : Segment_onBorder(segments[i], AskedPoint))
    => result.ret = FALSE

\* A border point whose cast ray intersects an odd number of segments was asked.
C1_Witness ==
  /\ result.op = "trimVertex"
  /\ Border_onBorder(Border, AskedPoint)
  /\ countIntersections(Border, AskedPoint) % 2 = 1
  /\ result.ret = FALSE

\* C2: in a border of n > 2 screen points, the edge2 ray of segment i and the
\* edge1 ray of segment i+1 are one and the same ray: the camera ray through
\* one screen point, displaced by the offset along the base normal.
C2_SharedRayIdentical ==
  Len(points) > 2 =>
    \A i \in 1..(Len(segments) - 1) :
      \E j \in 1..Len(points) :
        LET r == PrimRay(Add(Camera_position, Displace(offset, baseNormal(points, reverse))),
                         Camera_ray(points[j]).direction)
        IN  /\ segments[i].edge2 = <<r>>
            /\ segments[i + 1].edge1 = <<r>>

\* A reversed, displaced border with a middle segment.
C2_Witness ==
  /\ Len(points) = 4
  /\ reverse
  /\ offset > 0
  /\ Len(segments) = 3
  /\ segments[1].edge2 = segments[2].edge1
  /\ segments[2].edge2 = segments[3].edge1
  /\ segments[1].edge2 # segments[2].edge2

\* C3: 2 screen points give one segment without edges; n > 2 give n-1
\* segments: the first with edge2 only, the middle ones with both edges, the
\* last with edge1 only.
C3_SegmentChainShape ==
  LET n == Len(points)
      m == Len(segments)
  IN  /\ n = 2 => m = 1 /\ segments[1].edge1 = <<>> /\ segments[1].edge2 = <<>>
      /\ n > 2 =>
           /\ m = n - 1
           /\ segments[1].edge1 = <<>> /\ Len(segments[1].edge2) = 1
           /\ \A i \in 2..(m - 1) : Len(segments[i].edge1) = 1 /\ Len(segments[i].edge2) = 1
           /\ Len(segments[m].edge1) = 1 /\ segments[m].edge2 = <<>>
           /\ Cardinality({i \in 1..m : Len(segments[i].edge1) = 1 /\ Len(segments[i].edge2) = 1})
                = n - 3

\* A border of 4 screen points: first, one middle and last segment.
C3_Witness ==
  /\ Len(points) = 4
  /\ Len(segments) = 3
  /\ Len(segments[2].edge1) = 1 /\ Len(segments[2].edge2) = 1
  /\ variant = "full"
  /\ ~reverse

Rev(pts) == [i \in 1..Len(pts) |-> pts[Len(pts) + 1 - i]]

\* The border drawn in the other direction: the reversed point list with the
\* other value of the reverse flag.
OtherWinding ==
  [variant |-> "full", segments |-> Impl(Rev(points), offset, ~reverse), borderPlane |-> NoPlane]

\* C4: the border built from a point list with reverse = false and the border
\* built from the reversed list with reverse = true classify every point the
\* same, by trimVertex and by onBorder.
C4_WindingIndependent ==
  /\ (variant = "full" /\ result.op = "trimVertex")
       => result.ret = trimVertex(OtherWinding, AskedPoint)
  /\ (variant = "full" /\ result.op = "onBorder")
       => result.ret = Border_onBorder(OtherWinding, AskedPoint)

\* A point trimmed by a displaced border of 3 segments drawn forwards.
C4_Witness ==
  /\ variant = "full"
  /\ result.op = "trimVertex"
  /\ result.ret = TRUE
  /\ ~reverse
  /\ offset > 0
  /\ Len(segments) = 3
  /\ trimVertex(OtherWinding, AskedPoint)

\* Some pair of consecutive segments has plane normals with a negative dot product.
SomeReflex ==
  \E i \in 1..(Len(segments) - 1) :
    Dot(segments[i].plane.normal, segments[i + 1].plane.normal) < 0

\* C5: onlyObtuseAngles() is false for every border in which some pair of
\* consecutive segments has plane normals with a negative dot product, and
\* true for every border in which no pair has.
C5_ObtuseAnglesDetected ==
  result.op = "onlyObtuseAngles" => (result.ret = ~SomeReflex)

\* C6: trimFace gives the same answer for each of the six orderings of its
\* three points.
C6_TrimFaceSymmetric ==
  result.op = "trimFace" =>
    \A f \in {g \in [1..3 -> 1..3] : {g[1], g[2], g[3]} = 1..3} :
      trimFace(Border, Pt(result.args[f[1]]), Pt(result.args[f[2]]), Pt(result.args[f[3]]))
        = result.ret

\* A face with its three points on the border, trimmed because of one
\* midpoint, while another midpoint is not trimmed.
C6_Witness ==
  /\ result.op = "trimFace"
  /\ result.ret = TRUE
  /\ \A k \in 1..3 : Border_onBorder(Border, Pt(result.args[k]))
  /\ trimVertex(Border, midpoint(Pt(result.args[1]), Pt(result.args[2])))
  /\ ~trimVertex(Border, midpoint(Pt(result.args[1]), Pt(result.args[3])))

\* C7: for a point not on the border, trimVertex is true exactly when the ray
\* from the point along the negated sum of the segments' plane normals is
\* intersected by an odd number of segments, each segment counted once.
C7_ParityRule ==
  (/\ variant = "full"
   /\ result.op = "trimVertex"
   /\ ~\E i \in 1..Len(segments) : Segment_onBorder(segments[i], AskedPoint))
    => LET sum == SumUnitNormals(segments, Len(segments))
           ray == [origin |-> AskedPoint, direction |-> <<-sum[1], -sum[2], -sum[3]>>]
           hits == {i \in 1..Len(segments) : Segment_intersects(segments[i], ray)}
       IN  result.ret = (Cardinality(hits) % 2 = 1)

\* A point off the border whose ray is intersected by all three segments.
C7_Witness ==
  /\ variant = "full"
  /\ result.op = "trimVertex"
  /\ ~Border_onBorder(Border, AskedPoint)
  /\ countIntersections(Border, AskedPoint) = 3
  /\ result.ret = TRUE

(***************************************************************************)
(* Properties of the mutators                                              *)
(***************************************************************************)
\* polylines with index stored at the end of the last polyline.
AppendedToLast(pls, index) ==
  [q \in 1..Len(pls) |-> IF q = Len(pls) THEN pls[q] \o <<index>> ELSE pls[q]]

\* C8: BorderSegment.addVertex(index, point), called with onBorder(point) and
\* at least one polyline, appends index at the end of the last polyline and
\* changes nothing else; called with no polyline or with a point that is not
\* on the segment's border it fails an assertion and stores nothing.
C8_SegmentAddVertex ==
  [][\A i \in 1..Len(segments), index \in Indices, p \in PolyPts :
       SegmentAddVertex(i, index, p) =>
         IF Segment_onBorder(segments[i], Pt(p)) /\ Len(segments[i].polylines) > 0
         THEN /\ ~failed'
              /\ segments'[i].polylines = AppendedToLast(segments[i].polylines, index)
              /\ segments' = [segments EXCEPT ![i].polylines = segments'[i].polylines]
         ELSE /\ failed'
              /\ segments' = segments]_vars

\* addVertex on a segment with two polylines has stored into the second and
\* left the first, and the other segments, empty.
C8_Witness ==
  /\ result.op = "segmentAddVertex"
  /\ ~failed
  /\ \E i \in 1..Len(segments) :
       /\ Len(segments[i].polylines) = 2
       /\ segments[i].polylines[1] = <<>>
       /\ Len(segments[i].polylines[2]) = 1
       /\ \A j \in 1..Len(segments) : j # i => ~Segment_hasVertices(segments[j])

\* C9: Border.addVertex(index, p) appends index to the last polyline of exactly
\* the segments with onBorder(p) and leaves every other segment's polylines
\* as they are; it is fatal when no segment has onBorder(p).
C9_BorderAddVertex ==
  [][\A index \in Indices, p \in PolyPts :
       AddVertex(index, p) =>
         LET M == {k \in 1..Len(segments) : Segment_onBorder(segments[k], Pt(p))}
         IN  /\ M = {} => failed' /\ segments' = segments
             /\ \A k \in 1..Len(segments) : k \notin M => segments'[k] = segments[k]
             /\ (M # {} /\ \A k \in M : segments[k].polylines # <<>>) =>
                  /\ ~failed'
                  /\ \A k \in M :
                       segments'[k] =
                         [segments[k] EXCEPT
                            !.polylines = AppendedToLast(segments[k].polylines, index)]]_vars

\* A vertex on the ray shared by segments 1 and 2 of a three-segment border
\* has been stored in both and not in segment 3.
C9_Witness ==
  /\ result.op = "addVertex"
  /\ ~failed
  /\ Len(segments) = 3
  /\ segments[1].polylines = segments[2].polylines
  /\ Len(segments[1].polylines) = 1
  /\ Len(segments[1].polylines[1]) = 1
  /\ segments[3].polylines = <<<<>>>>

\* C10: setNewIndices(mapping) replaces every stored index i by mapping[i] and
\* keeps the number of polylines, their lengths and the order of the entries;
\* with the identity mapping it changes nothing.
C10_SetNewIndices ==
  [][\A newIndices \in NewIndices :
       SetNewIndices(newIndices) =>
         /\ ~failed' =>
              /\ Len(segments') = Len(segments)
              /\ \A k \in 1..Len(segments) :
                   /\ segments'[k] = [segments[k] EXCEPT !.polylines = segments'[k].polylines]
                   /\ Len(segments'[k].polylines) = Len(segments[k].polylines)
                   /\ \A q \in 1..Len(segments[k].polylines) :
                        /\ Len(segments'[k].polylines[q]) = Len(segments[k].polylines[q])
                        /\ \A j \in 1..Len(segments[k].polylines[q]) :
                             segments'[k].polylines[q][j]
                               = newIndices[segments[k].polylines[q][j] + 1]
         /\ newIndices = IdentityIndices => ~failed' /\ segments' = segments]_vars

\* setNewIndices has renumbered a border that holds vertices.
C10_Witness ==
  /\ result.op = "setNewIndices"
  /\ ~failed
  /\ \E k \in 1..Len(segments) : \E q \in 1..Len(segments[k].polylines) :
       Len(segments[k].polylines[q]) = 2 /\ segments[k].polylines[q][1] # segments[k].polylines[q][2]

\* The positions of the polylines of pls that hold vertices.
NonEmptyAt(pls) == {q \in 1..Len(pls) : pls[q] # <<>>}

\* The subsequence of the polylines of pls that hold vertices: its j-th entry
\* is the polyline at the j-th position of NonEmptyAt(pls).
NonEmptySubsequence(pls) ==
  [j \in 1..Cardinality(NonEmptyAt(pls)) |->
     pls[CHOOSE q \in NonEmptyAt(pls) :
           Cardinality({h \in NonEmptyAt(pls) : h <= q}) = j]]

\* C11: deleteEmptyPolylines leaves in each segment the subsequence of its
\* polylines that were not empty, in their order and with their contents, and
\* changes nothing else; deleting again changes nothing.
C11_DeleteEmptyPolylines ==
  [][EditDeleteEmptyPolylines =>
       /\ ~failed'
       /\ Len(segments') = Len(segments)
       /\ \A k \in 1..Len(segments) :
            segments'[k] =
              [segments[k] EXCEPT !.polylines = NonEmptySubsequence(segments[k].polylines)]
       /\ Border_deleteEmptyPolylines(segments') = segments']_vars

\* After the last of MaxEdits calls, deleteEmptyPolylines, a segment holds two
\* polylines with different vertices and another segment holds none.
C11_Witness ==
  /\ result.op = "deleteEmptyPolylines"
  /\ calls = MaxEdits
  /\ \E k \in 1..Len(segments), j \in 1..Len(segments) :
       /\ Len(segments[k].polylines) = 2
       /\ Len(segments[k].polylines[1]) = 1
       /\ Len(segments[k].polylines[2]) = 1
       /\ segments[k].polylines[1] # segments[k].polylines[2]
       /\ segments[j].polylines = <<>>

(***************************************************************************)
(* Properties of getSegment                                                *)
(***************************************************************************)
\* p lies on an edge ray of segment s.
OnEdgeRay(s, p) ==
  \/ isSet(s.edge1) /\ onRay(s.edge1[1], p)
  \/ isSet(s.edge2) /\ onRay(s.edge2[1], p)

\* The segments (1-based) on whose border both points asked about lie, with
\* at least one of the two not on an edge ray of the segment.
Owners ==
  LET v1 == Pt(result.args[1])
      v2 == Pt(result.args[2])
  IN  {k \in 1..Len(segments) :
         /\ Segment_onBorder(segments[k], v1)
         /\ Segment_onBorder(segments[k], v2)
         /\ ~OnEdgeRay(segments[k], v1) \/ ~OnEdgeRay(segments[k], v2)}

\* C12 as claimed: getSegment(v1, v2) returns the one segment on whose border
\* both points lie with at least one of them not on an edge ray, no second
\* segment of the chain being such a segment; it is fatal when there is none.
C12_UniqueSegment ==
  result.op = "getSegment" =>
    IF Owners = {} THEN failed
    ELSE /\ ~failed
         /\ result.ret + 1 \in Owners
         /\ Cardinality(Owners) = 1

\* C12 as amended: getSegment(v1, v2) returns the first segment of the chain
\* on whose border both points lie with at least one of them not on an edge
\* ray (later segments may be such segments too); it is fatal when there is
\* none.
C12_FirstSegment ==
  result.op = "getSegment" =>
    IF Owners = {} THEN failed
    ELSE /\ ~failed
         /\ result.ret + 1 \in Owners
         /\ \A k \in Owners : result.ret + 1 <= k

\* Two different points in front of the eye that two segments of a border
\* through pairwise different screen points own: the earlier segment has
\* been returned.
C12_Witness ==
  /\ result.op = "getSegment"
  /\ ~failed
  /\ Cardinality({points[i] : i \in 1..Len(points)}) = Len(points)
  /\ result.args[1] # result.args[2]
  /\ result.args[1][3] > 0 /\ result.args[2][3] > 0
  /\ Cardinality(Owners) = 2
  /\ result.ret + 1 \in Owners
  /\ \E k \in Owners : result.ret + 1 < k

====
